---- MODULE Spec2Model ----
(***************************************************************************)
(* A model of solana-vault-mcp: the wallet registry (initialize_wallet,    *)
(* get_wallet), the SolanaWallet service, the wallet action handlers, the  *)
(* MCP query route and application start-up.                               *)
(*                                                                         *)
(* Display amounts (SOL floats) are fixed-point numbers counted in ticks:  *)
(* one lamport is TicksPerLamport ticks, so an amount of n ticks is        *)
(* n / (TicksPerLamport * 1_000_000_000) SOL.  int(amount * 1e9) is then   *)
(* the truncation of n / TicksPerLamport towards zero.  The timestamp of a *)
(* cache entry (datetime.now()) is left out of the entry.                  *)
(***************************************************************************)
EXTENDS Integers, Sequences, FiniteSets, TLC

VARIABLES
    appState,         \* "starting" | "serving" | "crashed": create_app / app.run
    wallet_instance,  \* the module global _wallet_instance: None or a wallet
    nextId,           \* identity of the next SolanaWallet object constructed
    initSucceeded,    \* history: some initialize_wallet call has returned normally
    req,              \* the last operation invoked and its arguments
    resp,             \* what that operation returned or raised
    calls,            \* the adapter (solana Client) calls that operation made
    prev,             \* the registry slot as it was when that operation started
    pc,               \* per thread: position inside initialize_wallet
    targs,            \* per thread: the arguments of its initialize_wallet call
    tnew,             \* per thread: the SolanaWallet it constructed, not yet stored
    tret,             \* per thread: what its initialize_wallet call returned
    ctorRuns,         \* number of SolanaWallet.__init__ runs started by threads
    xferPc,           \* per request thread: position inside a wallet.transfer request
    xferReq,          \* per request thread: the params of its transfer request
    xferBal,          \* per request thread: the get_balance response it read
    xferSnd,          \* per request thread: the send_transaction response it read
    xferRet           \* per request thread: what its handler returned or raised

vars == <<appState, wallet_instance, nextId, initSucceeded, req, resp, calls,
          prev, pc, targs, tnew, tret, ctorRuns,
          xferPc, xferReq, xferBal, xferSnd, xferRet>>

seqVars == <<appState, wallet_instance, nextId, initSucceeded, req, resp, calls, prev>>
thrVars == <<pc, targs, tnew, tret, ctorRuns>>
xferVars == <<xferPc, xferReq, xferBal, xferSnd, xferRet>>

-----------------------------------------------------------------------------
(* Bounds of the model *)

TicksPerLamport == 2
MaxTicks == 3
MaxBalance == 1

(* Program constants *)

MIN_LIMIT == 1
MAX_LIMIT == 100
DEFAULT_LIMIT == 10

-----------------------------------------------------------------------------
(* Values *)

None == "None"

\* The value None in the registry slot (_wallet_instance = None).
NoWallet == [id |-> 0]

\* A call either returns a value or raises an exception of some class.
Ok(v) == [ok |-> TRUE, val |-> v]
RaiseOf(class, m) == [ok |-> FALSE, exc |-> class, err |-> m]
Raise(m) == RaiseOf("ValueError", m)

\* Keys as SOLANA_PRIVATE_KEY may hold them: two that decode to a keypair and
\* one that base58 or Keypair.from_secret_key rejects.
GoodKeys == {"keyA", "keyB"}
PrivateKeys == GoodKeys \cup {"undecodable"}

\* An RPC url is represented by the set of the literals mainnet, testnet and
\* devnet that occur in it.
RpcUrls == {{"devnet"}, {"mainnet"}, {"testnet", "devnet"}, {}}

\* The (private_key, rpc_url) pairs initialize_wallet is called with.
InitArgs == { <<"keyA", {"devnet"}>>, <<"keyB", {"mainnet"}>>,
              <<"undecodable", {"devnet"}>> }

\* Responses of Client.get_version(): a dict (with or without "result", the
\* result with or without "solana-core") or an exception.
VersionResponses ==
    { [kind |-> "dict", has_result |-> TRUE, has_core |-> TRUE],
      [kind |-> "dict", has_result |-> TRUE, has_core |-> FALSE],
      [kind |-> "dict", has_result |-> FALSE, has_core |-> FALSE],
      [kind |-> "raise", has_result |-> FALSE, has_core |-> FALSE] }

-----------------------------------------------------------------------------
(* Error messages, as the source words them *)

ErrNotInitialized == "Wallet not initialized. Call initialize_wallet first."
ErrInitFailed == "Failed to initialize Solana wallet"

-----------------------------------------------------------------------------
(* SolanaWallet.__init__ and _get_network_name *)

GetNetworkName(rpc_url) ==
    IF "mainnet" \in rpc_url THEN "mainnet"
    ELSE IF "testnet" \in rpc_url THEN "testnet"
    ELSE IF "devnet" \in rpc_url THEN "devnet"
    ELSE "unknown"

\* self.tx_history = {}
EmptyHistory == [k \in {} |-> None]

PublicKeyOf(private_key) == <<"pub", private_key>>

\* Whether the constructor body runs to its end without raising.
ConstructionSucceeds(private_key, ver) ==
    /\ private_key \in GoodKeys
    /\ ver.kind = "dict"
    /\ ver.has_result
    /\ ver.has_core

\* The object the constructor leaves behind, or the ValueError it raises.
NewSolanaWallet(id, private_key, rpc_url, ver) ==
    IF ConstructionSucceeds(private_key, ver)
    THEN Ok([id |-> id,
             public_key |-> PublicKeyOf(private_key),
             rpc_url |-> rpc_url,
             network |-> GetNetworkName(rpc_url),
             network_version |-> "solana-core",
             tx_history |-> EmptyHistory])
    ELSE Raise(ErrInitFailed)

\* The adapter calls of one constructor run: get_version, unless the key was
\* rejected before the client was created.
ConstructorCalls(private_key, ver) ==
    IF private_key \in GoodKeys THEN <<[fn |-> "get_version", ret |-> ver]>> ELSE <<>>

-----------------------------------------------------------------------------
(* The registry: initialize_wallet and get_wallet *)

\* An initialize_wallet that constructs on every call.
SlotIsEmptyAlways(slot) == TRUE

\* The slot test of initialize_wallet.
SlotIsEmpty(slot) == slot = NoWallet

\* initialize_wallet run as one step by a single caller: the outcome is the
\* new slot, what the call returns or raises, whether the constructor ran
\* and the adapter calls made.
InitializeOutcome(slot, id, private_key, rpc_url, ver) ==
    IF SlotIsEmpty(slot)
    THEN LET w == NewSolanaWallet(id, private_key, rpc_url, ver)
         IN  [slot |-> IF w.ok THEN w.val ELSE slot,
              ret |-> w,
              constructed |-> TRUE,
              calls |-> ConstructorCalls(private_key, ver)]
    ELSE [slot |-> slot, ret |-> Ok(slot), constructed |-> FALSE, calls |-> <<>>]

\* A get_wallet that hands out the slot without testing it.
GetWalletUnchecked(slot) == Ok(slot)

GetWalletResult(slot) ==
    IF slot = NoWallet THEN Raise(ErrNotInitialized) ELSE Ok(slot)

-----------------------------------------------------------------------------
(* The ledger client adapter (solana.rpc.api.Client) as the wallet sees it *)

Signatures == {"sigA", "sigB"}
ValidAddresses == {"addrA"}
Recipients == ValidAddresses \cup {"not-an-address"}

\* Client.get_balance(): a dict with or without "result", or an exception.
BalanceResponses ==
    { [kind |-> "dict", has_result |-> TRUE, value |-> b] : b \in 0..MaxBalance }
    \cup { [kind |-> "dict", has_result |-> FALSE, value |-> 0],
           [kind |-> "raise", has_result |-> FALSE, value |-> 0] }

\* Client.send_transaction(): a dict that may carry "error", "result", both
\* or neither, or an exception.
SendResponses ==
    { [kind |-> "dict", has_error |-> FALSE, has_result |-> TRUE, result |-> s] :
          s \in Signatures }
    \cup { [kind |-> "dict", has_error |-> TRUE, has_result |-> FALSE, result |-> None],
           [kind |-> "dict", has_error |-> TRUE, has_result |-> TRUE, result |-> "sigA"],
           [kind |-> "dict", has_error |-> FALSE, has_result |-> FALSE, result |-> None],
           [kind |-> "raise", has_error |-> FALSE, has_result |-> FALSE, result |-> None] }

\* Transaction summaries of Client.get_signatures_for_address(): "memo" and
\* "blockTime" are optional keys.
Summaries ==
    { [signature |-> "sigA", slot |-> 1, err |-> None, blockTime |-> 7],
      [signature |-> "sigB", slot |-> 2, err |-> "InstructionError", memo |-> "m"],
      [signature |-> "sigA", slot |-> 3, err |-> None] }

SummaryLists ==
    { <<>>,
      <<[signature |-> "sigA", slot |-> 1, err |-> None, blockTime |-> 7]>>,
      <<[signature |-> "sigB", slot |-> 2, err |-> "InstructionError", memo |-> "m"],
        [signature |-> "sigA", slot |-> 3, err |-> None]>> }

SignaturesResponses ==
    { [kind |-> "dict", has_error |-> FALSE, has_result |-> TRUE, result |-> l] :
          l \in SummaryLists }
    \cup { [kind |-> "dict", has_error |-> TRUE, has_result |-> FALSE, result |-> <<>>],
           [kind |-> "dict", has_error |-> FALSE, has_result |-> FALSE, result |-> <<>>],
           [kind |-> "raise", has_error |-> FALSE, has_result |-> FALSE, result |-> <<>>] }

-----------------------------------------------------------------------------
(* Amounts *)

Num(n) == [kind |-> "num", ticks |-> n]
NaN == [kind |-> "nan", ticks |-> 0]
Inf == [kind |-> "inf", ticks |-> 0]

\* The floats a caller can pass to SolanaWallet.transfer_sol.
FloatAmounts == { Num(n) : n \in (0 - TicksPerLamport)..MaxTicks } \cup {NaN, Inf}

\* What params["amount"] can hold: something float() turns into one of the
\* floats above (a JSON number or a numeric string), a string float() rejects
\* with ValueError, or null, which float() rejects with TypeError.
Missing == [kind |-> "missing", ticks |-> 0]
NonNumericString == [kind |-> "str", ticks |-> 0]
Null == [kind |-> "null", ticks |-> 0]
RawAmounts == FloatAmounts \cup {NonNumericString, Null}

\* Division truncating towards zero, as int() truncates a float.
TruncDiv(a, b) == IF a >= 0 THEN a \div b ELSE 0 - ((0 - a) \div b)

\* int(amount * 1_000_000_000) for a finite amount.
ToLamports(amount) == TruncDiv(amount.ticks, TicksPerLamport)

\* balance_lamports / 1_000_000_000, as a display amount.
ToSol(lamports) == Num(lamports * TicksPerLamport)

-----------------------------------------------------------------------------
(* SolanaWallet.get_balance *)

ErrGetBalance == "Failed to get SOL balance"

\* The record of one adapter call: the function, its arguments, its response.
BalanceCall(bal) == [fn |-> "get_balance", ret |-> bal]
SendCall(recipient, lamports, snd) ==
    [fn |-> "send_transaction", to |-> recipient, lamports |-> lamports, ret |-> snd]
SignaturesCall(limit, sigs) ==
    [fn |-> "get_signatures_for_address", limit |-> limit, ret |-> sigs]

GetBalance(bal) ==
    IF bal.kind = "dict" /\ bal.has_result
    THEN [ret |-> Ok(ToSol(bal.value)), calls |-> <<BalanceCall(bal)>>]
    ELSE [ret |-> Raise(ErrGetBalance), calls |-> <<BalanceCall(bal)>>]

-----------------------------------------------------------------------------
(* SolanaWallet.transfer_sol *)

ErrTransferPrefix == "Failed to transfer SOL: "
ErrInvalidAddress == ErrTransferPrefix \o "invalid public key input"
ErrNaNToInt == ErrTransferPrefix \o "cannot convert float NaN to integer"
ErrInfToInt == ErrTransferPrefix \o "cannot convert float infinity to integer"
ErrBalanceFormat == ErrTransferPrefix \o "Failed to get balance"
ErrBalanceRpc == ErrTransferPrefix \o "get_balance raised"
ErrInsufficient == ErrTransferPrefix \o "Insufficient balance"
ErrEncode == ErrTransferPrefix \o "transfer instruction rejected the lamports"
ErrSendRpc == ErrTransferPrefix \o "send_transaction raised"
ErrTransferFailed == ErrTransferPrefix \o "Transfer failed"
ErrSendFormat == ErrTransferPrefix \o "Unexpected response format"

\* A PublicKey() that accepts any string.
IsValidAddressAny(recipient) == TRUE

\* PublicKey(recipient) accepts the recipient.
IsValidAddress(recipient) == recipient \in ValidAddresses

\* A balance test that is off by one base unit.
InsufficientBalanceOffByOne(current_balance, lamports) == current_balance < lamports - 1

\* The test "current_balance < lamports" that rejects the transfer.
InsufficientBalance(current_balance, lamports) == current_balance < lamports

\* A cache write keyed by the recipient.
CacheTransactionByRecipient(tx_history, signature, amount, recipient) ==
    [k \in DOMAIN tx_history \cup {recipient} |->
        IF k = recipient
        THEN [type |-> "transfer", amount |-> amount, recipient |-> recipient]
        ELSE tx_history[k]]

\* A cache write that rebuilds the dict around the new entry.
CacheTransactionOnlyNew(tx_history, signature, amount, recipient) ==
    [k \in {signature} |->
        [type |-> "transfer", amount |-> amount, recipient |-> recipient]]

\* self.tx_history[signature] = {...}
CacheTransaction(tx_history, signature, amount, recipient) ==
    [k \in DOMAIN tx_history \cup {signature} |->
        IF k = signature
        THEN [type |-> "transfer", amount |-> amount, recipient |-> recipient]
        ELSE tx_history[k]]

\* A submission that caches the signature before it looks for "error" in the
\* response.
SubmitTransferCachesFirst(tx_history, recipient, amount, lamports, bal, snd, encodes) ==
    IF lamports < 0 /\ ~encodes
    THEN [ret |-> Raise(ErrEncode), calls |-> <<BalanceCall(bal)>>, tx_history |-> tx_history]
    ELSE LET made == <<BalanceCall(bal), SendCall(recipient, lamports, snd)>>
         IN  IF snd.kind = "raise"
             THEN [ret |-> Raise(ErrSendRpc), calls |-> made, tx_history |-> tx_history]
             ELSE IF ~snd.has_result
             THEN [ret |-> Raise(IF snd.has_error THEN ErrTransferFailed ELSE ErrSendFormat),
                   calls |-> made, tx_history |-> tx_history]
             ELSE [ret |-> IF snd.has_error THEN Raise(ErrTransferFailed) ELSE Ok(snd.result),
                   calls |-> made,
                   tx_history |->
                       CacheTransaction(tx_history, snd.result, amount, recipient)]

\* What follows the balance check: build the instruction, send, read the
\* response, cache.  encodes: whether the library's transfer() accepts a
\* negative lamports value (the library is not part of the sources).
SubmitTransfer(tx_history, recipient, amount, lamports, bal, snd, encodes) ==
    IF lamports < 0 /\ ~encodes
    THEN [ret |-> Raise(ErrEncode), calls |-> <<BalanceCall(bal)>>, tx_history |-> tx_history]
    ELSE LET made == <<BalanceCall(bal), SendCall(recipient, lamports, snd)>>
         IN  IF snd.kind = "raise"
             THEN [ret |-> Raise(ErrSendRpc), calls |-> made, tx_history |-> tx_history]
             ELSE IF snd.has_error
             THEN [ret |-> Raise(ErrTransferFailed), calls |-> made,
                   tx_history |-> tx_history]
             ELSE IF ~snd.has_result
             THEN [ret |-> Raise(ErrSendFormat), calls |-> made, tx_history |-> tx_history]
             ELSE [ret |-> Ok(snd.result), calls |-> made,
                   tx_history |->
                       CacheTransaction(tx_history, snd.result, amount, recipient)]

TransferSol(tx_history, recipient, amount, bal, snd, encodes) ==
    IF ~IsValidAddress(recipient)
    THEN [ret |-> Raise(ErrInvalidAddress), calls |-> <<>>, tx_history |-> tx_history]
    ELSE IF amount.kind = "nan"
    THEN [ret |-> Raise(ErrNaNToInt), calls |-> <<>>, tx_history |-> tx_history]
    ELSE IF amount.kind = "inf"
    THEN [ret |-> Raise(ErrInfToInt), calls |-> <<>>, tx_history |-> tx_history]
    ELSE IF bal.kind = "raise"
    THEN [ret |-> Raise(ErrBalanceRpc), calls |-> <<BalanceCall(bal)>>,
          tx_history |-> tx_history]
    ELSE IF ~bal.has_result
    THEN [ret |-> Raise(ErrBalanceFormat), calls |-> <<BalanceCall(bal)>>,
          tx_history |-> tx_history]
    ELSE IF InsufficientBalance(bal.value, ToLamports(amount))
    THEN [ret |-> Raise(ErrInsufficient), calls |-> <<BalanceCall(bal)>>,
          tx_history |-> tx_history]
    ELSE SubmitTransfer(tx_history, recipient, amount, ToLamports(amount),
                        bal, snd, encodes)

-----------------------------------------------------------------------------
(* SolanaWallet.get_token_balance and get_recent_transactions *)

ErrRecentTransactions == "Failed to get recent transactions"

GetTokenBalance(token_mint) ==
    [mint |-> token_mint, amount |-> "0", decimals |-> 0, ui_amount |-> 0]

\* A formatting that drops the memo.
FormatSummaryNoMemo(tx) ==
    IF "blockTime" \in DOMAIN tx
    THEN [signature |-> tx.signature, slot |-> tx.slot, err |-> tx.err,
          memo |-> None, block_time |-> tx.blockTime]
    ELSE [signature |-> tx.signature, slot |-> tx.slot, err |-> tx.err,
          memo |-> None]

\* One entry of the list get_recent_transactions returns.
FormatSummary(tx) ==
    LET memo == IF "memo" \in DOMAIN tx THEN tx.memo ELSE None
    IN  IF "blockTime" \in DOMAIN tx
        THEN [signature |-> tx.signature, slot |-> tx.slot, err |-> tx.err,
              memo |-> memo, block_time |-> tx.blockTime]
        ELSE [signature |-> tx.signature, slot |-> tx.slot, err |-> tx.err,
              memo |-> memo]

GetRecentTransactions(limit, sigs) ==
    IF sigs.kind = "dict" /\ ~sigs.has_error /\ sigs.has_result
    THEN [ret |-> Ok([i \in 1..Len(sigs.result) |-> FormatSummary(sigs.result[i])]),
          calls |-> <<SignaturesCall(limit, sigs)>>]
    ELSE [ret |-> Raise(ErrRecentTransactions), calls |-> <<SignaturesCall(limit, sigs)>>]

-----------------------------------------------------------------------------
(* Requests *)

\* An action string is held as its first seven characters and the rest, so
\* that startswith("wallet.") is a test of the first part.
Act(prefix, rest) == [prefix |-> prefix, rest |-> rest]
WalletAct(rest) == Act("wallet.", rest)

StartsWithWallet(action) == action.prefix = "wallet."

DispatchTable == {"info", "balance", "transfer", "transactions", "token_balance"}

WalletActions == { WalletAct(r) : r \in DispatchTable \cup {"unknown_thing", ""} }
OtherActions == { Act("system.", "ping"), Act("Wallet.", "info"),
                  Act("walletX", "info"), Act("wallet", "") }

\* What params["limit"] can hold: an int or a string of one (v), a float
\* counted in halves (v), a string int() rejects with ValueError, or null,
\* which int() rejects with TypeError.
LimitInts == { MIN_LIMIT - 2, MIN_LIMIT - 1, MIN_LIMIT, MIN_LIMIT + 1,
               DEFAULT_LIMIT, MAX_LIMIT - 1, MAX_LIMIT, MAX_LIMIT + 1 }
RawLimits ==
    { [kind |-> "int", v |-> n] : n \in LimitInts }
    \cup { [kind |-> "float", v |-> h] : h \in {1, 5, 2 * MAX_LIMIT + 1} }
    \cup { [kind |-> "str", v |-> 0], [kind |-> "null", v |-> 0],
           [kind |-> "missing", v |-> 0] }

TokenMints == {"mintA"}

NoParams == [recipient |-> "missing", amount |-> Missing,
             limit |-> [kind |-> "missing", v |-> 0], token_mint |-> "missing"]

TransferRequests ==
    { [NoParams EXCEPT !.recipient = r, !.amount = a] :
          r \in Recipients \cup {"missing"}, a \in RawAmounts \cup {Missing} }

TransactionsRequests == { [NoParams EXCEPT !.limit = l] : l \in RawLimits }

TokenRequests == { [NoParams EXCEPT !.token_mint = m] : m \in TokenMints \cup {"missing"} }

RequestIds == {"t1"}

-----------------------------------------------------------------------------
(* The handlers of wallet_actions.py.  Each returns the payload or the      *)
(* exception, the adapter calls made and the wallet's transaction cache.    *)

ErrUnknownAction == "Unknown wallet action"
ErrMissingRecipient == "Missing required parameter: recipient"
ErrMissingAmount == "Missing required parameter: amount"
ErrMissingTokenMint == "Missing required parameter: token_mint"
ErrInvalidAmountValue == "Invalid amount value. Must be a valid number."
ErrAmountNotPositive == "Amount must be greater than 0"
ErrFloatArgument == "float() argument must be a string or a number"
ErrIntArgument == "int() argument must be a string, a bytes-like object or a number"

Done(ret, made, tx_history) == [ret |-> ret, calls |-> made, tx_history |-> tx_history]

\* A get_wallet_info that fetches the balance a second time.
GetWalletInfoRefetch(w, bal) ==
    LET b == GetBalance(bal)
    IN  IF b.ret.ok
        THEN Done(Ok([address |-> w.public_key, network |-> w.network,
                      network_version |-> w.network_version, balance |-> b.ret.val]),
                  b.calls \o b.calls, w.tx_history)
        ELSE Done(b.ret, b.calls, w.tx_history)

GetWalletInfo(w, bal) ==
    LET b == GetBalance(bal)
    IN  IF b.ret.ok
        THEN Done(Ok([address |-> w.public_key, network |-> w.network,
                      network_version |-> w.network_version, balance |-> b.ret.val]),
                  b.calls, w.tx_history)
        ELSE Done(b.ret, b.calls, w.tx_history)

GetSolBalance(w, bal) ==
    LET b == GetBalance(bal)
    IN  IF b.ret.ok
        THEN Done(Ok([balance |-> b.ret.val, currency |-> "SOL",
                      address |-> w.public_key]),
                  b.calls, w.tx_history)
        ELSE Done(b.ret, b.calls, w.tx_history)

\* float(params['amount'])
ParseFloat(raw) ==
    CASE raw.kind = "str" -> RaiseOf("ValueError", "could not convert string to float")
      [] raw.kind = "null" -> RaiseOf("TypeError", ErrFloatArgument)
      [] OTHER -> Ok(raw)

\* The except clause around float(): which exception classes it catches.
AmountExceptCatches(class) == class = "ValueError"

\* The test "amount <= 0"; every comparison with NaN is false.
AmountNotPositive(amount) ==
    CASE amount.kind = "num" -> amount.ticks <= 0
      [] OTHER -> FALSE

\* The payload built from what wallet.transfer_sol returned; what it raised
\* passes through.
TransferPayload(w, recipient, amount, t) ==
    IF t.ret.ok
    THEN Done(Ok([success |-> TRUE, signature |-> t.ret.val, amount |-> amount,
                  recipient |-> recipient, explorer_cluster |-> w.network]),
              t.calls, t.tx_history)
    ELSE t

HandlerTransferSol(w, params, bal, snd, encodes) ==
    IF params.recipient = "missing"
    THEN Done(Raise(ErrMissingRecipient), <<>>, w.tx_history)
    ELSE IF params.amount = Missing
    THEN Done(Raise(ErrMissingAmount), <<>>, w.tx_history)
    ELSE LET f == ParseFloat(params.amount)
         IN  IF ~f.ok
             THEN IF AmountExceptCatches(f.exc)
                  THEN Done(Raise(ErrInvalidAmountValue), <<>>, w.tx_history)
                  ELSE Done(f, <<>>, w.tx_history)
             ELSE IF AmountNotPositive(f.val)
             THEN Done(Raise(ErrAmountNotPositive), <<>>, w.tx_history)
             ELSE TransferPayload(w, params.recipient, f.val,
                                  TransferSol(w.tx_history, params.recipient, f.val,
                                              bal, snd, encodes))

\* int(params.get('limit', 10))
ParseInt(raw) ==
    CASE raw.kind = "missing" -> Ok(DEFAULT_LIMIT)
      [] raw.kind = "int" -> Ok(raw.v)
      [] raw.kind = "float" -> Ok(TruncDiv(raw.v, 2))
      [] raw.kind = "str" -> RaiseOf("ValueError", "invalid literal for int()")
      [] OTHER -> RaiseOf("TypeError", ErrIntArgument)

\* The except clause around int(): which exception classes it catches.
LimitExceptCatches(class) == class = "ValueError"

\* The range test that replaces the limit by the default.
LimitOutOfRange(limit) == limit <= 0 \/ limit > MAX_LIMIT

ClampLimit(limit) == IF LimitOutOfRange(limit) THEN DEFAULT_LIMIT ELSE limit

HandlerGetTransactions(w, params, sigs) ==
    LET n == ParseInt(params.limit)
    IN  IF ~n.ok /\ ~LimitExceptCatches(n.exc)
        THEN Done(n, <<>>, w.tx_history)
        ELSE LET limit == ClampLimit(IF n.ok THEN n.val ELSE DEFAULT_LIMIT)
                 r == GetRecentTransactions(limit, sigs)
             IN  IF r.ret.ok
                 THEN Done(Ok([transactions |-> r.ret.val, count |-> Len(r.ret.val),
                               address |-> w.public_key]),
                           r.calls, w.tx_history)
                 ELSE Done(r.ret, r.calls, w.tx_history)

HandlerGetTokenBalance(w, params) ==
    IF params.token_mint = "missing"
    THEN Done(Raise(ErrMissingTokenMint), <<>>, w.tx_history)
    ELSE LET d == GetTokenBalance(params.token_mint)
         IN  Done(Ok([token_mint |-> params.token_mint, balance |-> d.ui_amount,
                      raw_balance |-> d.amount, decimals |-> d.decimals,
                      address |-> w.public_key]),
                  <<>>, w.tx_history)

-----------------------------------------------------------------------------
(* handle_wallet_action *)

Dispatch(w, action, params, bal, snd, encodes, sigs) ==
    CASE action = WalletAct("info") -> GetWalletInfo(w, bal)
      [] action = WalletAct("balance") -> GetSolBalance(w, bal)
      [] action = WalletAct("transfer") -> HandlerTransferSol(w, params, bal, snd, encodes)
      [] action = WalletAct("transactions") -> HandlerGetTransactions(w, params, sigs)
      [] action = WalletAct("token_balance") -> HandlerGetTokenBalance(w, params)
      [] OTHER -> Done(Raise(ErrUnknownAction), <<>>, w.tx_history)

\* An except clause that names ValueError only.
RouterCatchesValueError(class) == class = "ValueError"

\* The except clause of handle_wallet_action: which exception classes it catches.
RouterCatches(class) == TRUE

FailurePayload(action, message) ==
    [error |-> message, action |-> action, success |-> FALSE]

\* The outcome of handle_wallet_action: what it returns or raises, the adapter
\* calls made and the registry slot afterwards.
\* r: what the try block returned or raised.
RouterResult(slot, action, r) ==
    [ret |-> IF r.ret.ok \/ ~RouterCatches(r.ret.exc)
             THEN r.ret
             ELSE Ok(FailurePayload(action, r.ret.err)),
     calls |-> r.calls,
     slot |-> IF slot = NoWallet THEN slot ELSE [slot EXCEPT !.tx_history = r.tx_history]]

HandleWalletAction(slot, action, params, bal, snd, encodes, sigs) ==
    RouterResult(slot, action,
                 IF GetWalletResult(slot).ok
                 THEN Dispatch(GetWalletResult(slot).val, action, params,
                               bal, snd, encodes, sigs)
                 ELSE Done(GetWalletResult(slot), <<>>, EmptyHistory))

-----------------------------------------------------------------------------
(* mcp_query *)

ErrNoJson == "Invalid request: No JSON data provided"
ErrBadFormat == "Invalid MCP request format"
ErrUnknownNamespace == "Unknown action"
ErrInternal == "Internal server error"

Envelope(id, action, params) ==
    [kind |-> "envelope", id |-> id, action |-> action, params |-> params]
NoJson == [kind |-> "no_json"]
Malformed == [kind |-> "malformed"]

Http(status, body, routed, made, slot) ==
    [status |-> status, body |-> body, routed |-> routed, calls |-> made, slot |-> slot]

\* A namespace test that only looks for the word wallet.
RoutesToWalletLoose(action) == action.prefix \in {"wallet.", "walletX", "wallet"}

\* Whether a parsed request is handed to handle_wallet_action.
RoutesToWallet(action) == StartsWithWallet(action)

\* The response built from what handle_wallet_action returned; the outer
\* except clause answers 500 for anything it raised.
Respond(id, h) ==
    IF h.ret.ok
    THEN Http(200, [id |-> id, result |-> h.ret.val], TRUE, h.calls, h.slot)
    ELSE Http(500, [error |-> ErrInternal], TRUE, h.calls, h.slot)

McpQueryOutcome(slot, data, bal, snd, encodes, sigs) ==
    IF data.kind = "no_json"
    THEN Http(400, [error |-> ErrNoJson], FALSE, <<>>, slot)
    ELSE IF data.kind = "malformed"
    THEN Http(400, [error |-> ErrBadFormat], FALSE, <<>>, slot)
    ELSE IF RoutesToWallet(data.action)
    THEN Respond(data.id, HandleWalletAction(slot, data.action, data.params,
                                             bal, snd, encodes, sigs))
    ELSE Http(400, [error |-> ErrUnknownNamespace], FALSE, <<>>, slot)

-----------------------------------------------------------------------------
(* create_app and run.py *)

\* What app.config["SOLANA_PRIVATE_KEY"] and ["RPC_URL"] hold at start-up:
\* no key at all, or one of the pairs above.
StartupConfigs == InitArgs \cup { <<None, {"mainnet"}>> }

\* A create_app that lets the exception of initialize_wallet escape.
StartupStateFatal(init_ret) == IF init_ret.ok THEN "serving" ELSE "crashed"

\* Where start-up goes once initialize_wallet has returned or raised inside
\* create_app's try block: the except clause logs and create_app returns the
\* app, which run.py then serves.
StartupState(init_ret) == "serving"

-----------------------------------------------------------------------------
(* The initial state *)

Threads == {"t1", "t2"}

\* A thread whose initialize_wallet call has not ended yet.
NotReturned == [ok |-> FALSE, exc |-> "none", err |-> "none"]

\* No adapter response read yet.
NoResponse == [kind |-> "none"]

Init ==
    /\ appState = "starting"
    /\ wallet_instance = NoWallet
    /\ nextId = 1
    /\ initSucceeded = FALSE
    /\ req = [op |-> "none"]
    /\ resp = [op |-> "none"]
    /\ calls = <<>>
    /\ prev = NoWallet
    /\ pc = [t \in Threads |-> "idle"]
    /\ targs = [t \in Threads |-> <<None, {}>>]
    /\ tnew = [t \in Threads |-> NoWallet]
    /\ tret = [t \in Threads |-> NotReturned]
    /\ ctorRuns = 0
    /\ xferPc = [t \in Threads |-> "idle"]
    /\ xferReq = [t \in Threads |-> NoParams]
    /\ xferBal = [t \in Threads |-> NoResponse]
    /\ xferSnd = [t \in Threads |-> NoResponse]
    /\ xferRet = [t \in Threads |-> NotReturned]

-----------------------------------------------------------------------------
(* Operations, each run to completion by one caller *)

\* Adapter responses are drawn only for the calls an operation makes.
DummyBal == [kind |-> "raise", has_result |-> FALSE, value |-> 0]
DummySnd == [kind |-> "raise", has_error |-> FALSE, has_result |-> FALSE, result |-> None]
DummySigs == [kind |-> "raise", has_error |-> FALSE, has_result |-> FALSE, result |-> <<>>]
DummyVer == [kind |-> "raise", has_result |-> FALSE, has_core |-> FALSE]

Made(fn, made) == \E i \in 1..Len(made) : made[i].fn = fn

BalChoices(made) == IF Made("get_balance", made) THEN BalanceResponses ELSE {DummyBal}
SndChoices(made) == IF Made("send_transaction", made) THEN SendResponses ELSE {DummySnd}
SigsChoices(made) ==
    IF Made("get_signatures_for_address", made) THEN SignaturesResponses ELSE {DummySigs}
VerChoices(made) == IF Made("get_version", made) THEN VersionResponses ELSE {DummyVer}

\* The state after mcp_query has answered.
Answer(data, o) ==
    /\ req' = [op |-> "mcp_query", data |-> data]
    /\ resp' = [status |-> o.status, body |-> o.body, routed |-> o.routed]
    /\ calls' = o.calls
    /\ prev' = wallet_instance
    /\ wallet_instance' = o.slot
    /\ UNCHANGED <<appState, nextId, initSucceeded, thrVars, xferVars>>

QueryTransfer ==
    /\ appState = "serving"
    /\ \E id \in RequestIds, p \in TransferRequests :
        LET data == Envelope(id, WalletAct("transfer"), p)
            out(b, s, e) == McpQueryOutcome(wallet_instance, data, b, s, e, DummySigs)
        IN  \E b \in BalChoices(out(DummyBal, DummySnd, TRUE).calls) :
            \E s \in SndChoices(out(b, DummySnd, TRUE).calls) :
            \E e \in IF out(b, s, TRUE) = out(b, s, FALSE) THEN {TRUE} ELSE BOOLEAN :
                Answer(data, out(b, s, e))

QueryTransactions ==
    /\ appState = "serving"
    /\ \E id \in RequestIds, p \in TransactionsRequests :
        LET data == Envelope(id, WalletAct("transactions"), p)
            out(g) == McpQueryOutcome(wallet_instance, data, DummyBal, DummySnd, TRUE, g)
        IN  \E g \in SigsChoices(out(DummySigs).calls) : Answer(data, out(g))

QueryBalance ==
    /\ appState = "serving"
    /\ \E id \in RequestIds, a \in {WalletAct("info"), WalletAct("balance")} :
        LET data == Envelope(id, a, NoParams)
            out(b) == McpQueryOutcome(wallet_instance, data, b, DummySnd, TRUE, DummySigs)
        IN  \E b \in BalChoices(out(DummyBal).calls) : Answer(data, out(b))

OtherBodies ==
    { Envelope(id, WalletAct("token_balance"), p) : id \in RequestIds, p \in TokenRequests }
    \cup { Envelope(id, a, NoParams) :
               id \in RequestIds,
               a \in OtherActions \cup {WalletAct("unknown_thing"), WalletAct("")} }
    \cup { NoJson, Malformed }

QueryOther ==
    /\ appState = "serving"
    /\ \E data \in OtherBodies :
        Answer(data, McpQueryOutcome(wallet_instance, data, DummyBal, DummySnd, TRUE,
                                     DummySigs))

InitializeWallet ==
    \E a \in InitArgs :
        LET out(v) == InitializeOutcome(wallet_instance, nextId, a[1], a[2], v)
        IN  \E v \in VerChoices(out(DummyVer).calls) :
            /\ req' = [op |-> "initialize_wallet", private_key |-> a[1], rpc_url |-> a[2]]
            /\ resp' = [ret |-> out(v).ret, constructed |-> out(v).constructed]
            /\ calls' = out(v).calls
            /\ prev' = wallet_instance
            /\ wallet_instance' = out(v).slot
            /\ nextId' = IF out(v).constructed /\ out(v).ret.ok THEN nextId + 1 ELSE nextId
            /\ initSucceeded' = (initSucceeded \/ out(v).ret.ok)
            /\ UNCHANGED <<appState, thrVars, xferVars>>

GetWallet ==
    /\ req' = [op |-> "get_wallet"]
    /\ resp' = [ret |-> GetWalletResult(wallet_instance), initialized |-> initSucceeded]
    /\ calls' = <<>>
    /\ prev' = wallet_instance
    /\ UNCHANGED <<appState, wallet_instance, nextId, initSucceeded, thrVars, xferVars>>

\* create_app followed by app.run: initialize_wallet is called when a key is
\* configured, and whatever it raises is logged.
CreateApp ==
    /\ appState = "starting"
    /\ \E c \in StartupConfigs :
        LET skipped == [slot |-> wallet_instance, ret |-> Ok(NoWallet),
                        constructed |-> FALSE, calls |-> <<>>]
            out(v) == IF c[1] = None THEN skipped
                      ELSE InitializeOutcome(wallet_instance, nextId, c[1], c[2], v)
        IN  \E v \in VerChoices(out(DummyVer).calls) :
            /\ req' = [op |-> "create_app", private_key |-> c[1], rpc_url |-> c[2]]
            /\ resp' = [ret |-> out(v).ret, constructed |-> out(v).constructed]
            /\ calls' = out(v).calls
            /\ prev' = wallet_instance
            /\ wallet_instance' = out(v).slot
            /\ nextId' = IF out(v).constructed /\ out(v).ret.ok THEN nextId + 1 ELSE nextId
            /\ initSucceeded' = (initSucceeded \/ (c[1] # None /\ out(v).ret.ok))
            /\ appState' = StartupState(out(v).ret)
            /\ UNCHANGED <<thrVars, xferVars>>

Next ==
    \/ CreateApp
    \/ InitializeWallet
    \/ GetWallet
    \/ QueryTransfer
    \/ QueryTransactions
    \/ QueryBalance
    \/ QueryOther

Spec == Init /\ [][Next]_vars

-----------------------------------------------------------------------------
(* initialize_wallet entered by several threads: one step per access to the *)
(* global.  The constructor waits on the network (get_version) between the  *)
(* test of the global and the assignment to it.                             *)

\* line 22: a thread calls initialize_wallet(private_key, rpc_url)
TEnter(t) ==
    /\ pc[t] = "idle"
    /\ \E a \in InitArgs : targs' = [targs EXCEPT ![t] = a]
    /\ pc' = [pc EXCEPT ![t] = "check"]
    /\ UNCHANGED <<seqVars, tnew, tret, ctorRuns, xferVars>>

\* line 25: if _wallet_instance is None
TCheck(t) ==
    /\ pc[t] = "check"
    /\ pc' = [pc EXCEPT ![t] = IF SlotIsEmpty(wallet_instance) THEN "construct"
                               ELSE "return"]
    /\ UNCHANGED <<seqVars, targs, tnew, tret, ctorRuns, xferVars>>

\* line 27, right-hand side: SolanaWallet(private_key, rpc_url)
TConstruct(t) ==
    /\ pc[t] = "construct"
    /\ \E v \in VersionResponses :
        LET w == NewSolanaWallet(nextId, targs[t][1], targs[t][2], v)
        IN  /\ ctorRuns' = ctorRuns + 1
            /\ IF w.ok
               THEN /\ tnew' = [tnew EXCEPT ![t] = w.val]
                    /\ nextId' = nextId + 1
                    /\ pc' = [pc EXCEPT ![t] = "store"]
                    /\ tret' = tret
               ELSE /\ tret' = [tret EXCEPT ![t] = w]
                    /\ pc' = [pc EXCEPT ![t] = "done"]
                    /\ UNCHANGED <<tnew, nextId>>
    /\ UNCHANGED <<appState, wallet_instance, initSucceeded, req, resp, calls, prev, targs,
                   xferVars>>

\* line 27, assignment: _wallet_instance = <the new object>
TStore(t) ==
    /\ pc[t] = "store"
    /\ wallet_instance' = tnew[t]
    /\ pc' = [pc EXCEPT ![t] = "return"]
    /\ UNCHANGED <<appState, nextId, initSucceeded, req, resp, calls, prev,
                   targs, tnew, tret, ctorRuns, xferVars>>

\* line 32: return _wallet_instance
TReturn(t) ==
    /\ pc[t] = "return"
    /\ tret' = [tret EXCEPT ![t] = Ok(wallet_instance)]
    /\ initSucceeded' = TRUE
    /\ pc' = [pc EXCEPT ![t] = "done"]
    /\ UNCHANGED <<appState, wallet_instance, nextId, req, resp, calls, prev,
                   targs, tnew, ctorRuns, xferVars>>

NextConc == \E t \in Threads : TEnter(t) \/ TCheck(t) \/ TConstruct(t) \/ TStore(t) \/ TReturn(t)

SpecConc == Init /\ [][NextConc]_vars

-----------------------------------------------------------------------------
(* wallet.transfer requests handled by concurrent request threads.  A thread
   can be preempted between any two statements; the statements between two
   adapter calls touch nothing shared, so a thread's steps are: the handler
   up to the balance fetch, the balance fetch and check, the submission, and
   the store into the shared tx_history dict (one dict item assignment, which
   the interpreter performs as a single step). *)

\* Requests of the threads: two amounts that convert to the same number of
\* lamports, and one the handler rejects.
ConcurrentTransfers ==
    { [NoParams EXCEPT !.recipient = "addrA", !.amount = Num(n)] :
          n \in {0, TicksPerLamport, TicksPerLamport + 1} }

\* The transfer handler as a thread has run it so far, on the cache as it
\* is now.
XferOutcome(p, bal, snd) == HandlerTransferSol(wallet_instance, p, bal, snd, TRUE)

XferFinish(t, ret) ==
    /\ xferRet' = [xferRet EXCEPT ![t] = ret]
    /\ xferPc' = [xferPc EXCEPT ![t] = "done"]

\* wallet_actions.py 19, 68-88 and solana_wallet.py 88-93: get_wallet, the
\* parameter checks, PublicKey(recipient), the conversion to lamports.
XHandle(t) ==
    /\ appState = "serving"
    /\ xferPc[t] = "idle"
    /\ \E p \in ConcurrentTransfers :
        /\ xferReq' = [xferReq EXCEPT ![t] = p]
        /\ IF ~GetWalletResult(wallet_instance).ok
           THEN XferFinish(t, GetWalletResult(wallet_instance))
           ELSE IF Made("get_balance", XferOutcome(p, DummyBal, DummySnd).calls)
           THEN /\ xferPc' = [xferPc EXCEPT ![t] = "get_balance"]
                /\ UNCHANGED xferRet
           ELSE XferFinish(t, XferOutcome(p, DummyBal, DummySnd).ret)
    /\ UNCHANGED <<seqVars, thrVars, xferBal, xferSnd>>

\* solana_wallet.py 96-102: the balance fetch and the sufficiency check.
XGetBalance(t) ==
    /\ xferPc[t] = "get_balance"
    /\ \E b \in BalanceResponses :
        /\ xferBal' = [xferBal EXCEPT ![t] = b]
        /\ IF Made("send_transaction", XferOutcome(xferReq[t], b, DummySnd).calls)
           THEN /\ xferPc' = [xferPc EXCEPT ![t] = "send_transaction"]
                /\ UNCHANGED xferRet
           ELSE XferFinish(t, XferOutcome(xferReq[t], b, DummySnd).ret)
    /\ UNCHANGED <<seqVars, thrVars, xferReq, xferSnd>>

\* solana_wallet.py 105-132: the submission and the reading of its response.
XSendTransaction(t) ==
    /\ xferPc[t] = "send_transaction"
    /\ \E s \in SendResponses :
        /\ xferSnd' = [xferSnd EXCEPT ![t] = s]
        /\ IF XferOutcome(xferReq[t], xferBal[t], s).ret.ok
           THEN /\ xferPc' = [xferPc EXCEPT ![t] = "cache"]
                /\ UNCHANGED xferRet
           ELSE XferFinish(t, XferOutcome(xferReq[t], xferBal[t], s).ret)
    /\ UNCHANGED <<seqVars, thrVars, xferReq, xferBal>>

\* solana_wallet.py 135-143 and wallet_actions.py 90-96: the store into
\* tx_history, then the return of the signature and of the payload.
XCache(t) ==
    /\ xferPc[t] = "cache"
    /\ wallet_instance' =
           [wallet_instance EXCEPT
               !.tx_history = XferOutcome(xferReq[t], xferBal[t], xferSnd[t]).tx_history]
    /\ XferFinish(t, XferOutcome(xferReq[t], xferBal[t], xferSnd[t]).ret)
    /\ UNCHANGED <<appState, nextId, initSucceeded, req, resp, calls, prev, thrVars,
                   xferReq, xferBal, xferSnd>>

NextTransfers ==
    \/ CreateApp
    \/ \E t \in Threads : XHandle(t) \/ XGetBalance(t) \/ XSendTransaction(t) \/ XCache(t)

SpecTransfers == Init /\ [][NextTransfers]_vars

-----------------------------------------------------------------------------
(* Vocabulary of the properties *)

IsQuery == req.op = "mcp_query" /\ req.data.kind = "envelope"
IsWalletQuery(rest) == IsQuery /\ req.data.action = WalletAct(rest)
Params == req.data.params
Result == resp.body.result

\* The handler transfer_sol ran with a recipient and an amount: a transfer.
IsTransfer ==
    /\ IsWalletQuery("transfer")
    /\ prev # NoWallet
    /\ Params.recipient # "missing"
    /\ Params.amount # Missing

SendIndexes == { i \in 1..Len(calls) : calls[i].fn = "send_transaction" }
NoSubmission == SendIndexes = {}

\* The adapter answered the balance fetch of this operation with a balance.
BalanceReported ==
    /\ Len(calls) >= 1
    /\ calls[1].fn = "get_balance"
    /\ calls[1].ret.kind = "dict"
    /\ calls[1].ret.has_result
ReportedBalance == calls[1].ret.value

\* The adapter answered the submission of this operation with a signature.
SubmissionSucceeded ==
    /\ Len(calls) = 2
    /\ calls[2].fn = "send_transaction"
    /\ calls[2].ret.kind = "dict"
    /\ ~calls[2].ret.has_error
    /\ calls[2].ret.has_result
ReturnedSignature == calls[2].ret.result

IsFailure(message) ==
    /\ resp.status = 200
    /\ Result = FailurePayload(req.data.action, message)

CacheEntry(amount, recipient) ==
    [type |-> "transfer", amount |-> amount, recipient |-> recipient]

\* A valid recipient and a positive amount that is at most the reported balance.
CoveredTransfer ==
    /\ IsTransfer
    /\ IsValidAddress(Params.recipient)
    /\ Params.amount.kind = "num"
    /\ Params.amount.ticks > 0
    /\ BalanceReported
    /\ Params.amount.ticks <= ReportedBalance * TicksPerLamport

\* Such a transfer is submitted for int(amount * 1e9) lamports, and returns
\* the adapter's signature when the submission succeeds.
TransferSubmitted ==
    /\ Len(calls) = 2
    /\ calls[2].fn = "send_transaction"
    /\ calls[2].to = Params.recipient
    /\ calls[2].lamports = ToLamports(Params.amount)
    /\ SubmissionSucceeded =>
        /\ resp.status = 200
        /\ Result.success
        /\ Result.signature = ReturnedSignature
        /\ ReturnedSignature \in DOMAIN wallet_instance.tx_history
        /\ wallet_instance.tx_history[ReturnedSignature] =
               CacheEntry(Params.amount, Params.recipient)

-----------------------------------------------------------------------------
(* C1 *)

\* C1 as stated: a transfer with a valid recipient and a positive amount at
\* most the reported balance, whose submission succeeds, returns the adapter's
\* signature and the cache gains exactly one entry, keyed by that signature,
\* with the call's amount and recipient.
C1_GainsExactlyOneEntry ==
    CoveredTransfer =>
        /\ TransferSubmitted
        /\ SubmissionSucceeded =>
            Cardinality(DOMAIN wallet_instance.tx_history) =
                Cardinality(DOMAIN prev.tx_history) + 1

\* C1, amended: such a transfer returns the adapter's signature and afterwards
\* the cache maps that signature to the call's amount and recipient; every
\* other entry is as before, and the cache gains exactly one entry when the
\* signature was not a key of it and none when it was (the entry is replaced).
C1_CachedUnderSignature ==
    CoveredTransfer =>
        /\ TransferSubmitted
        /\ SubmissionSucceeded =>
            /\ DOMAIN wallet_instance.tx_history =
                   DOMAIN prev.tx_history \cup {ReturnedSignature}
            /\ \A k \in DOMAIN prev.tx_history \ {ReturnedSignature} :
                   wallet_instance.tx_history[k] = prev.tx_history[k]

\* A successful transfer under a new signature into a cache that already
\* holds an entry with another amount.
C1_Witness ==
    /\ CoveredTransfer
    /\ SubmissionSucceeded
    /\ ReturnedSignature \notin DOMAIN prev.tx_history
    /\ \E k \in DOMAIN prev.tx_history : prev.tx_history[k].amount # Params.amount

-----------------------------------------------------------------------------
(* C2 *)

ZeroNegativeOrNonNumeric(amount) ==
    \/ amount.kind = "num" /\ amount.ticks <= 0
    \/ amount.kind \in {"str", "null"}

\* C2: a transfer whose amount is zero, negative or non-numeric fails with
\* one of the two invalid-amount errors and send_transaction is not called.
C2_InvalidAmountRejected ==
    (IsTransfer /\ ZeroNegativeOrNonNumeric(Params.amount)) =>
        /\ IsFailure(ErrInvalidAmountValue) \/ IsFailure(ErrAmountNotPositive)
        /\ NoSubmission

-----------------------------------------------------------------------------
(* C3 *)

\* C3 as stated: a transfer (valid recipient, finite amount) whose amount in
\* display units exceeds the reported balance fails with the insufficient
\* balance error and send_transaction is not called.
C3_DisplayAmountExceeds ==
    ( /\ IsTransfer
      /\ IsValidAddress(Params.recipient)
      /\ Params.amount.kind = "num"
      /\ BalanceReported
      /\ Params.amount.ticks > ReportedBalance * TicksPerLamport )
    => (IsFailure(ErrInsufficient) /\ NoSubmission)

\* C3, amended: a transfer with a valid recipient whose amount, converted to
\* base units by truncation, exceeds the reported balance fails with the
\* insufficient balance error and send_transaction is not called.
C3_BaseUnitsExceed ==
    ( /\ IsTransfer
      /\ IsValidAddress(Params.recipient)
      /\ Params.amount.kind = "num"
      /\ BalanceReported
      /\ ToLamports(Params.amount) > ReportedBalance )
    => (IsFailure(ErrInsufficient) /\ NoSubmission /\ wallet_instance = prev)

\* A transfer refused because it asks for one base unit more than the balance.
C3_Witness ==
    /\ IsTransfer
    /\ BalanceReported
    /\ Params.amount.kind = "num"
    /\ ToLamports(Params.amount) = ReportedBalance + 1
    /\ IsFailure(ErrInsufficient)

-----------------------------------------------------------------------------
(* C4 *)

SameInstance(a, b) == a.id = b.id

\* C4: however the threads' initialize_wallet calls interleave, at most one
\* SolanaWallet is constructed and all callers that return get that one.
C4_AtMostOneConstruction ==
    /\ nextId <= 2
    /\ \A t, u \in Threads :
           (pc[t] = "done" /\ pc[u] = "done" /\ tret[t].ok /\ tret[u].ok)
               => SameInstance(tret[t].val, tret[u].val)

-----------------------------------------------------------------------------
(* C5 *)

IsInitialize ==
    \/ req.op = "initialize_wallet"
    \/ req.op = "create_app" /\ req.private_key # None

SameWallet(a, b) ==
    /\ SameInstance(a, b)
    /\ a.public_key = b.public_key
    /\ a.network = b.network
    /\ a.rpc_url = b.rpc_url

\* C5: once the slot holds a wallet, every initialize_wallet call returns that
\* wallet without running the constructor, whatever its arguments; no
\* operation replaces it or changes its address, network or endpoint, and
\* get_wallet returns it.
C5_InitializeIdempotent ==
    /\ (IsInitialize /\ prev # NoWallet) =>
           /\ resp.ret = Ok(prev)
           /\ ~resp.constructed
           /\ calls = <<>>
           /\ wallet_instance = prev
    /\ prev # NoWallet => SameWallet(wallet_instance, prev)
    /\ (req.op = "get_wallet" /\ prev # NoWallet) => resp.ret = Ok(prev)

\* A second initialize_wallet call with another key and another url.
C5_Witness ==
    /\ req.op = "initialize_wallet"
    /\ prev # NoWallet
    /\ PublicKeyOf(req.private_key) # prev.public_key
    /\ req.private_key \in GoodKeys
    /\ req.rpc_url # prev.rpc_url
    /\ resp.ret = Ok(prev)

-----------------------------------------------------------------------------
(* C6 *)

\* C6: while no initialize_wallet call has succeeded, get_wallet raises the
\* not-initialized error; get_wallet never returns an empty slot.
C6_GetBeforeInitialize ==
    req.op = "get_wallet" =>
        /\ ~resp.initialized => resp.ret = Raise(ErrNotInitialized)
        /\ resp.ret.ok => resp.ret.val # NoWallet

\* get_wallet called after the only initialize_wallet call so far has failed.
C6_Witness ==
    /\ req.op = "get_wallet"
    /\ ~resp.initialized
    /\ appState = "serving"
    /\ ~resp.ret.ok

-----------------------------------------------------------------------------
(* C7 *)

AdapterCallFailed(c) ==
    \/ c.ret.kind = "raise"
    \/ ~c.ret.has_result
    \/ c.fn # "get_balance" /\ c.ret.has_error

\* The cases C7 lists: action not in the dispatch table, registry empty, a
\* required parameter missing or invalid, a wallet or adapter operation failed.
HandlerFailureCase ==
    \/ req.data.action.rest \notin DispatchTable
    \/ prev = NoWallet
    \/ /\ IsWalletQuery("transfer")
       /\ \/ Params.recipient = "missing"
          \/ ~IsValidAddress(Params.recipient)
          \/ Params.amount.kind # "num"
          \/ Params.amount.ticks <= 0
    \/ IsWalletQuery("token_balance") /\ Params.token_mint = "missing"
    \/ \E i \in 1..Len(calls) : AdapterCallFailed(calls[i])
    \/ /\ IsWalletQuery("transfer")
       /\ BalanceReported
       /\ NoSubmission

IsFailurePayload(r) ==
    /\ DOMAIN r = {"error", "action", "success"}
    /\ r.action = req.data.action
    /\ r.success = FALSE

\* C7: a request whose action begins with "wallet." is handed to
\* handle_wallet_action, which returns a payload (nothing escapes to the
\* route's own except clause); in each failure case the payload is
\* {error, action, success: false} with the request's action.
C7_RouterNeverRaises ==
    (IsQuery /\ StartsWithWallet(req.data.action)) =>
        /\ resp.routed
        /\ resp.status = 200
        /\ resp.body.id = req.data.id
        /\ HandlerFailureCase => IsFailurePayload(Result)

\* A failure raised as a TypeError inside a handler, answered as a payload.
C7_Witness ==
    /\ IsWalletQuery("transfer")
    /\ prev # NoWallet
    /\ Params.amount = Null
    /\ Params.recipient # "missing"
    /\ resp.status = 200
    /\ IsFailurePayload(Result)

-----------------------------------------------------------------------------
(* C8 *)

\* C8: a well-formed request whose action does not begin with "wallet." is
\* answered 400 with {error} alone; handle_wallet_action is not called, no
\* adapter call is made and the registry slot is untouched.
C8_UnknownNamespaceRejected ==
    (IsQuery /\ ~StartsWithWallet(req.data.action)) =>
        /\ resp.status = 400
        /\ resp.body = [error |-> ErrUnknownNamespace]
        /\ ~resp.routed
        /\ calls = <<>>
        /\ wallet_instance = prev

\* A request for an action that only resembles the wallet namespace, made
\* while a wallet is initialized.
C8_Witness ==
    /\ IsQuery
    /\ req.data.action = Act("walletX", "info")
    /\ prev # NoWallet
    /\ resp.status = 400

-----------------------------------------------------------------------------
(* C9 *)

StartupConstructionFailed ==
    /\ req.op = "create_app"
    /\ \/ req.private_key = None
       \/ ~resp.ret.ok

\* C9 as stated: the application never serves requests while the registry
\* slot is empty.
C9_NeverServesUninitialized ==
    ~(appState = "serving" /\ wallet_instance = NoWallet)

\* C9, amended: when no key is configured or the construction fails at
\* start-up, create_app logs it and start-up completes; the application
\* serves with the slot empty, and in that state every wallet request is
\* answered with the not-initialized failure payload and no adapter call.
C9_StartupFailureIsLogged ==
    /\ appState # "crashed"
    /\ StartupConstructionFailed =>
           (appState = "serving" /\ wallet_instance = prev)
    /\ (req.op = "create_app" /\ ~resp.ret.ok) => wallet_instance = NoWallet
    /\ (IsQuery /\ StartsWithWallet(req.data.action) /\ prev = NoWallet) =>
           (IsFailure(ErrNotInitialized) /\ calls = <<>>)

\* A wallet request answered while serving with the slot empty.
C9_Witness ==
    /\ IsWalletQuery("balance")
    /\ appState = "serving"
    /\ prev = NoWallet
    /\ IsFailure(ErrNotInitialized)

-----------------------------------------------------------------------------
(* C10 *)

\* The limit C10 expects the adapter to be called with.
ExpectedLimit(raw) ==
    IF raw.kind = "int" /\ raw.v >= MIN_LIMIT /\ raw.v <= MAX_LIMIT
    THEN raw.v
    ELSE DEFAULT_LIMIT

\* C10: whatever limit a wallet.transactions request carries (an integer, a
\* string, null, or none), get_signatures_for_address is called once with
\* that limit when it is an integer in [1, 100] and with 10 otherwise.
C10_LimitClamped ==
    (IsWalletQuery("transactions") /\ prev # NoWallet /\ Params.limit.kind # "float") =>
        /\ Len(calls) = 1
        /\ calls[1].fn = "get_signatures_for_address"
        /\ calls[1].limit = ExpectedLimit(Params.limit)

-----------------------------------------------------------------------------
(* C11 *)

\* The request's recipient is not an address PublicKey() accepts.
InvalidRecipient == IsTransfer /\ Params.recipient \notin ValidAddresses

\* float(params['amount']) succeeds and the result is not "<= 0": a positive
\* number, infinity or NaN.
AmountPassesHandler ==
    \/ Params.amount.kind = "num" /\ Params.amount.ticks > 0
    \/ Params.amount.kind \in {"nan", "inf"}

\* C11 as stated: a transfer request whose recipient is not a valid address
\* fails with the invalid-address error, whatever its amount, and no adapter
\* call is made for it.
C11_RecipientValidatedFirst ==
    InvalidRecipient => (IsFailure(ErrInvalidAddress) /\ calls = <<>>)

\* C11, amended: a transfer request whose recipient is not a valid address
\* fails with the failure payload and no adapter call is made for it; the
\* error is the invalid-address error when the amount passes the handler's
\* amount checks, which run before the recipient is looked at.
C11_InvalidRecipientFails ==
    InvalidRecipient =>
        /\ resp.status = 200
        /\ IsFailurePayload(Result)
        /\ calls = <<>>
        /\ AmountPassesHandler => IsFailure(ErrInvalidAddress)

\* A transfer request with a positive amount and an invalid recipient,
\* refused with the invalid-address error.
C11_Witness ==
    /\ InvalidRecipient
    /\ Params.amount.kind = "num"
    /\ Params.amount.ticks > 0
    /\ IsFailure(ErrInvalidAddress)
    /\ calls = <<>>

-----------------------------------------------------------------------------
(* C12 *)

\* The adapter answered the signature-history call of a wallet.transactions
\* request with a list of summaries.
HistoryReturned ==
    /\ IsWalletQuery("transactions")
    /\ Len(calls) = 1
    /\ calls[1].fn = "get_signatures_for_address"
    /\ calls[1].ret.kind = "dict"
    /\ ~calls[1].ret.has_error
    /\ calls[1].ret.has_result
ReturnedSummaries == calls[1].ret.result

\* entry is the normalized form of summary.
Normalizes(entry, summary) ==
    /\ entry.signature = summary.signature
    /\ entry.slot = summary.slot
    /\ entry.err = summary.err
    /\ entry.memo = (IF "memo" \in DOMAIN summary THEN summary.memo ELSE None)
    /\ ("block_time" \in DOMAIN entry) <=> ("blockTime" \in DOMAIN summary)
    /\ ("blockTime" \in DOMAIN summary) => entry.block_time = summary.blockTime

\* C12: the transactions returned are one normalized entry per summary of
\* the adapter's result, in the adapter's order: signature, slot and err are
\* kept, memo is null when the summary has none, and block_time is present
\* exactly when the summary has a blockTime.
C12_OneEntryPerSummary ==
    HistoryReturned =>
        /\ resp.status = 200
        /\ Len(Result.transactions) = Len(ReturnedSummaries)
        /\ Result.count = Len(ReturnedSummaries)
        /\ \A i \in 1..Len(ReturnedSummaries) :
               Normalizes(Result.transactions[i], ReturnedSummaries[i])

\* A history of two summaries, the first with a memo and no block time.
C12_Witness ==
    /\ HistoryReturned
    /\ Len(ReturnedSummaries) = 2
    /\ "memo" \in DOMAIN ReturnedSummaries[1]
    /\ "blockTime" \notin DOMAIN ReturnedSummaries[1]
    /\ Result.transactions[1].memo = "m"
    /\ Result.transactions[2].signature = "sigA"

-----------------------------------------------------------------------------
(* C13 *)

\* C13 as stated: handling one request of an action other than wallet.info
\* makes at most one adapter call.
C13_OnlyInfoSpansTwoCalls ==
    (IsQuery /\ req.data.action # WalletAct("info")) => Len(calls) <= 1

\* C13, amended: handling one request makes at most one adapter call for
\* every action but wallet.transfer (wallet.info included) and none for
\* wallet.token_balance; wallet.transfer alone can make two, the balance
\* fetch and then the submission.
C13_OnlyTransferSpansTwoCalls ==
    IsQuery =>
        /\ Len(calls) <= 2
        /\ ~IsWalletQuery("transfer") => Len(calls) <= 1
        /\ IsWalletQuery("token_balance") => calls = <<>>
        /\ Len(calls) = 2 =>
               /\ calls[1].fn = "get_balance"
               /\ calls[2].fn = "send_transaction"

\* A transfer that fetched the balance and then submitted.
C13_Witness ==
    /\ IsWalletQuery("transfer")
    /\ Len(calls) = 2
    /\ calls[1].fn = "get_balance"
    /\ calls[2].fn = "send_transaction"

-----------------------------------------------------------------------------
(* C14 *)

\* Thread t's transfer has finished and returned a signature.
XferSucceeded(t) == xferPc[t] = "done" /\ xferRet[t].ok
XferSignature(t) == xferRet[t].val.signature
XferEntry(t) == CacheEntry(xferReq[t].amount, xferReq[t].recipient)

\* C14 as stated: once the concurrent transfers have all finished, every
\* successful transfer's signature is a key of the cache with that
\* transfer's own amount and recipient.
C14_NoWriteLost ==
    (\A t \in Threads : xferPc[t] = "done") =>
        \A t \in Threads :
            XferSucceeded(t) =>
                /\ XferSignature(t) \in DOMAIN wallet_instance.tx_history
                /\ wallet_instance.tx_history[XferSignature(t)] = XferEntry(t)

\* C14, amended: the signature of every finished successful transfer is a
\* key of the cache, and the entry under it holds the amount and recipient
\* of a successful transfer that returned that signature: the transfer's own
\* when no other transfer returned the same signature.
C14_SignatureKeptLastWriteWins ==
    \A t \in Threads :
        XferSucceeded(t) =>
            /\ XferSignature(t) \in DOMAIN wallet_instance.tx_history
            /\ \E u \in Threads :
                   /\ XferSucceeded(u)
                   /\ XferSignature(u) = XferSignature(t)
                   /\ wallet_instance.tx_history[XferSignature(t)] = XferEntry(u)

\* Two transfers of different amounts ran concurrently, both succeeded under
\* different signatures, and the cache holds both entries.
C14_Witness ==
    /\ \A t \in Threads : XferSucceeded(t)
    /\ XferSignature("t1") # XferSignature("t2")
    /\ xferReq["t1"].amount # xferReq["t2"].amount
    /\ \A t \in Threads : wallet_instance.tx_history[XferSignature(t)] = XferEntry(t)

-----------------------------------------------------------------------------
(* C15 *)

\* The operation just run was a transfer that the adapter answered with a
\* signature and that the handler reported as a success.
TransferSucceeded ==
    /\ IsTransfer
    /\ SubmissionSucceeded
    /\ resp.status = 200
    /\ Result.success

\* C15 as stated: an operation on an initialized wallet removes no cache
\* entry and modifies none, and changes the cache only when it is a transfer
\* that succeeds.
C15_AppendOnly ==
    prev # NoWallet =>
        /\ \A k \in DOMAIN prev.tx_history :
               /\ k \in DOMAIN wallet_instance.tx_history
               /\ wallet_instance.tx_history[k] = prev.tx_history[k]
        /\ wallet_instance.tx_history # prev.tx_history => TransferSucceeded

\* C15, amended: an operation removes no cache entry and changes the cache
\* only when it is a transfer that succeeds; it modifies an entry only when
\* that transfer returns the entry's signature, and the entry then holds
\* that transfer's amount and recipient.
C15_NeverRemovedReplacedOnlyBySameSignature ==
    prev # NoWallet =>
        /\ DOMAIN prev.tx_history \subseteq DOMAIN wallet_instance.tx_history
        /\ \A k \in DOMAIN prev.tx_history :
               wallet_instance.tx_history[k] # prev.tx_history[k] =>
                   /\ TransferSucceeded
                   /\ ReturnedSignature = k
                   /\ wallet_instance.tx_history[k] =
                          CacheEntry(Params.amount, Params.recipient)
        /\ wallet_instance.tx_history # prev.tx_history => TransferSucceeded

\* A transfer refused for insufficient balance on a wallet whose cache holds
\* an entry: the cache is as it was.
C15_Witness ==
    /\ IsTransfer
    /\ IsFailure(ErrInsufficient)
    /\ DOMAIN prev.tx_history # {}
    /\ wallet_instance.tx_history = prev.tx_history

-----------------------------------------------------------------------------
(* C16 *)

\* C16: every send_transaction call carries a strictly positive number of
\* lamports that is at most the balance fetched earlier in the same
\* operation.
C16_SubmitsPositiveWithinBalance ==
    \A i \in SendIndexes :
        /\ calls[i].lamports > 0
        /\ BalanceReported
        /\ calls[i].lamports <= ReportedBalance

====
